---- MODULE Spec2Model ----
(***************************************************************************)
(* The player's hyperjump life cycle of Pioneer (src/src/Player.cpp).      *)
(*                                                                         *)
(* Player overrides InitiateHyperjumpTo, AbortHyperjump, OnEnterHyperspace *)
(* and OnEnterSystem of Ship.  The overrides are translated from           *)
(* Player.cpp.  The state machine they wrap belongs to Ship (the base      *)
(* InitiateHyperjumpTo and AbortHyperjump and the per-tick update that     *)
(* calls the two OnEnter hooks): the Ship* operators below follow          *)
(* sections 4.4 and 5 of the specification.                                *)
(*                                                                         *)
(* One action is one call of a handler, taken whole.  What a call emitted  *)
(* and which states it passed through is kept in the variables played,     *)
(* events and path, which describe the last call only.                     *)
(*                                                                         *)
(* Spec is the hyperjump life cycle and FairSpec is Spec with a simulation *)
(* loop that keeps ticking.  Five more specifications take the functions   *)
(* that do not drive the life cycle: PlannerSpec the maneuver queries of   *)
(* Player (GetManeuverTime, GetManeuverVelocity), RemovalSpec              *)
(* Player::NotifyRemoved with the target setters, LuaSpec the Lua methods  *)
(* of Body (src/src/lua/LuaBody.cpp), SystemBodySpec the attribute body of *)
(* SystemBody (src/src/lua/LuaSystemBody.cpp), and CreakSpec the jerk      *)
(* history and the creak sound of Player::StaticUpdate.                    *)
(***************************************************************************)
EXTENDS Integers, Sequences, FiniteSets, TLC

\* ------------------------------------------------------------------ bounds
NumSystems == 2
MaxFrameId == 1
NumBodies == 1
MaxWarmup == 2
MaxTransit == 2
MaxDelta == 5
MaxChecks == 2

\* ------------------------------------------------------------------ values
Systems == 1..NumSystems
NoFrame == <<0, 0>>
RootFrame(s) == <<s, 0>>
LocalFrames == Systems \X (0..MaxFrameId)

None == 0
Bodies == 1..NumBodies

States == {"IDLE", "WARMUP", "COMMITTED", "TRANSIT", "ARRIVING", "ABORTED"}

HYPERJUMP_OK == "HYPERJUMP_OK"
PRECONDITION_VIOLATION == "PRECONDITION_VIOLATION"
RejectionReasons == {"out of fuel", "too close to mass"}
CheckResults == {"pass"} \cup RejectionReasons

\* The eligibility checks of one request: the outcome of each closure, in order.
CheckLists == UNION {[1..n -> CheckResults] : n \in 0..MaxChecks}

FlightControlStates == {"CONTROL_MANUAL", "CONTROL_FIXSPEED"}
\* Directional thrust along one axis: 0 is neutral.
ThrusterStates == {0, 1}

VARIABLES
    m_hyperspace,       \* the ship's hyperjump session fields
    frame,              \* the vehicle's frame membership, NoFrame when detached
    navTarget,
    combatTarget,
    setSpeedTarget,
    flightControlState,
    thrusterState,
    wantHyperspace,     \* Pi::game has been asked to switch to hyperspace
    sessions,           \* live hyperjump sessions (created minus destroyed)
    frameAtInitiate,    \* frame membership when the running jump was initiated
    lastCall,           \* the handler called last
    lastStatus,         \* what it returned or raised
    played,             \* the sounds and collaborator calls it made, in order
    events,             \* the transition events it emitted, in order
    path,               \* the states it passed through, the first being where it began
    seenByGame          \* the requests for hyperspace the last call made of Pi::game

\* What the maneuver queries read and return.
VARIABLES
    frameGraph,         \* kind and system body of every frame of the vehicle's chain
    planner,            \* Pi::planner: the transfer the player has planned
    semiMajorAxis,      \* semi-major axis of the orbit ComputeOrbit() returns
    maneuver            \* the maneuver query made last and what it returned

hyperjumpVars ==
        <<m_hyperspace, frame, navTarget, combatTarget, setSpeedTarget,
          flightControlState, thrusterState, wantHyperspace, sessions,
          frameAtInitiate, lastCall, lastStatus, played, events, path,
          seenByGame>>

plannerVars == <<frameGraph, planner, semiMajorAxis, maneuver>>

\* The body NotifyRemoved was called with last, and the targets before the call.
VARIABLE removed

\* What the Lua methods of Body read and return.
VARIABLES
    space,              \* frame and position of the ships
    terrainHeight,      \* height of the planet's terrain
    luaReturn,          \* the Lua method called last and what it returned
    attr                \* what reading an attribute of a SystemBody finds and leaves

\* Pi::game: whether there is one, its space, the bodies in it.
game == attr.game
\* The Lua stack the function called last returned with.
luaStack == attr.luaStack

luaVars == <<space, terrainHeight, luaReturn, attr>>

\* What Player::StaticUpdate keeps for the creak sound.
VARIABLE creak

\* The jerk history, oldest entry first.
m_jerk == creak.m_jerk
\* The acceleration of the update before.
m_accel == creak.m_accel
\* The sound event: stopped, playing, or stopping (fading out).
m_creakSound == creak.m_creakSound
\* The jerk values computed so far, the last five at most.
arrived == creak.arrived
\* The last StaticUpdate has called m_creakSound.Play.
creakStarted == creak.creakStarted

creakVars == <<creak>>

vars == <<hyperjumpVars, plannerVars, removed, luaVars, creakVars>>

targets == <<navTarget, combatTarget, setSpeedTarget>>
controls == <<flightControlState, thrusterState>>

currentState == m_hyperspace.currentState

\* What a handler plays or calls on a presentation collaborator.
Sound(name) == <<"Sound", name>>
ResetHyperspaceTarget == <<"SectorView", "ResetHyperspaceTarget">>

\* ---------------------------------------------------- the session record
\* m_hyperspace with no session: every field of the request is cleared.
IdleSession ==
    [currentState |-> "IDLE", dest |-> 0, warmupDuration |-> 0,
     transitDuration |-> 0, elapsed |-> 0, committedAt |-> 0]

RECURSIVE FirstFailure(_)
\* The reason of the first check that fails, HYPERJUMP_OK when none does.
FirstFailure(checks) ==
    IF checks = <<>> THEN HYPERJUMP_OK
    ELSE IF Head(checks) # "pass" THEN Head(checks)
    ELSE FirstFailure(Tail(checks))

\* ------------------------------------------- Ship (base class) operations
\* ShipInitiateHyperjumpTo without the test that the state is IDLE.
ShipInitiateHyperjumpTo_NoPrecondition(h, d, w, t, checks) ==
    IF FirstFailure(checks) # HYPERJUMP_OK
    THEN [status |-> FirstFailure(checks), h |-> h, created |-> 0,
          events |-> <<>>, path |-> <<h.currentState>>]
    ELSE [status |-> HYPERJUMP_OK,
          h |-> [currentState |-> "WARMUP", dest |-> d, warmupDuration |-> w,
                 transitDuration |-> t, elapsed |-> 0, committedAt |-> 0],
          created |-> 1,
          events |-> <<"WARMUP_STARTED">>, path |-> <<h.currentState, "WARMUP">>]

\* initiate(request): valid only from IDLE; the checks run in order and the
\* first failure is the rejection reason; on success WARMUP is entered and the
\* request recorded.
ShipInitiateHyperjumpTo(h, d, w, t, checks) ==
    IF h.currentState # "IDLE"
    THEN [status |-> PRECONDITION_VIOLATION, h |-> h, created |-> 0,
          events |-> <<>>, path |-> <<h.currentState>>]
    ELSE IF FirstFailure(checks) # HYPERJUMP_OK
    THEN [status |-> FirstFailure(checks), h |-> h, created |-> 0,
          events |-> <<>>, path |-> <<"IDLE">>]
    ELSE [status |-> HYPERJUMP_OK,
          h |-> [currentState |-> "WARMUP", dest |-> d, warmupDuration |-> w,
                 transitDuration |-> t, elapsed |-> 0, committedAt |-> 0],
          created |-> 1,
          events |-> <<"WARMUP_STARTED">>, path |-> <<"IDLE", "WARMUP">>]

\* abort(): valid from WARMUP only; ABORTED returns to IDLE at once and the
\* frame membership is not touched.
ShipAbortHyperjump(h) ==
    IF h.currentState # "WARMUP"
    THEN [status |-> PRECONDITION_VIOLATION, h |-> h, destroyed |-> 0,
          events |-> <<>>, path |-> <<h.currentState>>]
    ELSE [status |-> "ABORTED", h |-> IdleSession, destroyed |-> 1,
          events |-> <<"ABORTED">>, path |-> <<"WARMUP", "ABORTED", "IDLE">>]

\* ShipTimeStepWarmup comparing the tick's own deltaTime with warmupDuration.
ShipTimeStepWarmup_PerTickCompare(h, f, want, dt) ==
    LET e == h.elapsed + dt IN
    IF dt >= h.warmupDuration
    THEN [h |-> [h EXCEPT !.currentState = "COMMITTED", !.elapsed = e,
                          !.committedAt = e],
          frame |-> NoFrame, want |-> want, destroyed |-> 0,
          hook |-> "OnEnterHyperspace",
          events |-> <<"COMMITTED">>, path |-> <<"WARMUP", "COMMITTED">>]
    ELSE [h |-> [h EXCEPT !.elapsed = e],
          frame |-> f, want |-> want, destroyed |-> 0, hook |-> "none",
          events |-> <<>>, path |-> <<"WARMUP">>]

\* ShipTimeStepWarmup arriving at once when one tick covers warmup and transit.
ShipTimeStepWarmup_SkipsOnLargeTick(h, f, want, dt) ==
    LET e == h.elapsed + dt IN
    IF e >= h.warmupDuration + h.transitDuration
    THEN [h |-> [currentState |-> "IDLE", dest |-> 0, warmupDuration |-> 0,
                 transitDuration |-> 0, elapsed |-> 0, committedAt |-> 0],
          frame |-> RootFrame(h.dest), want |-> want, destroyed |-> 1,
          hook |-> "OnEnterSystem",
          events |-> <<"ARRIVED">>, path |-> <<"WARMUP", "ARRIVING", "IDLE">>]
    ELSE IF e >= h.warmupDuration
    THEN [h |-> [h EXCEPT !.currentState = "COMMITTED", !.elapsed = e,
                          !.committedAt = e],
          frame |-> NoFrame, want |-> want, destroyed |-> 0,
          hook |-> "OnEnterHyperspace",
          events |-> <<"COMMITTED">>, path |-> <<"WARMUP", "COMMITTED">>]
    ELSE [h |-> [h EXCEPT !.elapsed = e],
          frame |-> f, want |-> want, destroyed |-> 0, hook |-> "none",
          events |-> <<>>, path |-> <<"WARMUP">>]

\* advance(deltaTime) in WARMUP: elapsed time is accumulated and compared with
\* warmupDuration; reaching it commits the jump and detaches the vehicle.
ShipTimeStepWarmup(h, f, want, dt) ==
    LET e == h.elapsed + dt IN
    IF e >= h.warmupDuration
    THEN [h |-> [h EXCEPT !.currentState = "COMMITTED", !.elapsed = e,
                          !.committedAt = e],
          frame |-> NoFrame, want |-> want, destroyed |-> 0,
          hook |-> "OnEnterHyperspace",
          events |-> <<"COMMITTED">>, path |-> <<"WARMUP", "COMMITTED">>]
    ELSE [h |-> [h EXCEPT !.elapsed = e],
          frame |-> f, want |-> want, destroyed |-> 0, hook |-> "none",
          events |-> <<>>, path |-> <<"WARMUP">>]

\* advance(deltaTime) once committed: the game, asked to, switches to
\* hyperspace (TRANSIT); arrival comes transitDuration after the commit and
\* attaches the vehicle to the destination's root frame.
ShipTimeStepTransit(h, f, want, dt) ==
    LET e == h.elapsed + dt
        from == IF h.currentState = "COMMITTED"
                THEN <<"COMMITTED", "TRANSIT">> ELSE <<"TRANSIT">>
    IN
    IF h.currentState = "COMMITTED" /\ ~want
    THEN [h |-> h, frame |-> f, want |-> want, destroyed |-> 0, hook |-> "none",
          events |-> <<>>, path |-> <<"COMMITTED">>]
    ELSE IF e - h.committedAt >= h.transitDuration
    THEN [h |-> IdleSession,
          frame |-> RootFrame(h.dest), want |-> FALSE, destroyed |-> 1,
          hook |-> "OnEnterSystem",
          events |-> <<"ARRIVED">>, path |-> from \o <<"ARRIVING", "IDLE">>]
    ELSE [h |-> [h EXCEPT !.currentState = "TRANSIT", !.elapsed = e],
          frame |-> f, want |-> FALSE, destroyed |-> 0, hook |-> "none",
          events |-> <<>>, path |-> from]

\* The per-tick update of the state machine.
ShipTimeStep(h, f, want, dt) ==
    CASE h.currentState = "WARMUP" -> ShipTimeStepWarmup(h, f, want, dt)
      [] h.currentState \in {"COMMITTED", "TRANSIT"} ->
            ShipTimeStepTransit(h, f, want, dt)
      [] OTHER -> [h |-> h, frame |-> f, want |-> want, destroyed |-> 0,
                   hook |-> "none", events |-> <<>>, path |-> <<h.currentState>>]

\* ------------------------------------------------------- Player overrides
\* Pi::game->WantHyperspace(): the game is asked to switch to hyperspace by a
\* handler that was entered with the targets entered, and finds the player
\* with the targets t and the flight control state fcs.
WantHyperspace(entered, t, fcs) ==
    <<[withTarget |-> entered # <<None, None, None>>,
       targets |-> t, flightControlState |-> fcs]>>

\* The call has not asked the game for hyperspace.
NotAsked == <<>>

\* OnEnterHyperspace asking the game before it clears anything.
OnEnterHyperspace_AsksFirst ==
    /\ played' = <<Sound("jump_sound")>>
    /\ wantHyperspace' = TRUE
    /\ seenByGame' = WantHyperspace(targets, targets, flightControlState)
    /\ navTarget' = None
    /\ combatTarget' = None
    /\ setSpeedTarget' = None
    /\ flightControlState' = "CONTROL_MANUAL"
    /\ thrusterState' = 0

\* OnEnterHyperspace without ClearThrusterState.
OnEnterHyperspace_KeepsThrust ==
    /\ played' = <<Sound("jump_sound")>>
    /\ navTarget' = None
    /\ combatTarget' = None
    /\ setSpeedTarget' = None
    /\ flightControlState' = "CONTROL_MANUAL"
    /\ wantHyperspace' = TRUE
    /\ UNCHANGED thrusterState
    /\ seenByGame' = WantHyperspace(targets, targets', flightControlState')

\* OnEnterHyperspace without SetNavTarget(0).
OnEnterHyperspace_KeepsNavTarget ==
    /\ played' = <<Sound("jump_sound")>>
    /\ combatTarget' = None
    /\ setSpeedTarget' = None
    /\ flightControlState' = "CONTROL_MANUAL"
    /\ thrusterState' = 0
    /\ wantHyperspace' = TRUE
    /\ UNCHANGED navTarget
    /\ seenByGame' = WantHyperspace(targets, targets', flightControlState')

\* OnEnterHyperspace without the jump sound.
OnEnterHyperspace_Silent ==
    /\ played' = <<>>
    /\ navTarget' = None
    /\ combatTarget' = None
    /\ setSpeedTarget' = None
    /\ flightControlState' = "CONTROL_MANUAL"
    /\ thrusterState' = 0
    /\ wantHyperspace' = TRUE
    /\ seenByGame' = WantHyperspace(targets, targets', flightControlState')

\* OnEnterHyperspace without Pi::game->WantHyperspace().
OnEnterHyperspace_NoWantHyperspace ==
    /\ played' = <<Sound("jump_sound")>>
    /\ navTarget' = None
    /\ combatTarget' = None
    /\ setSpeedTarget' = None
    /\ flightControlState' = "CONTROL_MANUAL"
    /\ thrusterState' = 0
    /\ UNCHANGED wantHyperspace
    /\ seenByGame' = NotAsked

\* Player::OnEnterHyperspace, called by the ship when the jump commits.
OnEnterHyperspace ==
    /\ played' = <<Sound("jump_sound")>>
    /\ navTarget' = None
    /\ combatTarget' = None
    /\ setSpeedTarget' = None
    /\ flightControlState' = "CONTROL_MANUAL"
    /\ thrusterState' = 0
    /\ wantHyperspace' = TRUE
    /\ seenByGame' = WantHyperspace(targets, targets', flightControlState')

\* Player::OnEnterSystem, called by the ship on arrival.
OnEnterSystem ==
    /\ flightControlState' = "CONTROL_MANUAL"
    /\ played' = <<ResetHyperspaceTarget>>
    /\ UNCHANGED <<targets, thrusterState>>

\* InitiateHyperjumpTo playing the warmup sound whatever the status is.
InitiateHyperjumpTo_SoundAlways(d, w, t, checks) ==
    LET r == ShipInitiateHyperjumpTo(m_hyperspace, d, w, t, checks) IN
    /\ m_hyperspace' = r.h
    /\ played' = <<Sound("warmup_sound")>>
    /\ lastCall' = "InitiateHyperjumpTo"
    /\ lastStatus' = r.status
    /\ events' = r.events
    /\ path' = r.path
    /\ sessions' = sessions + r.created
    /\ frameAtInitiate' = IF r.created = 1 THEN frame ELSE frameAtInitiate
    /\ seenByGame' = NotAsked
    /\ UNCHANGED <<frame, targets, controls, wantHyperspace>>

\* Player::InitiateHyperjumpTo.
InitiateHyperjumpTo(d, w, t, checks) ==
    LET r == ShipInitiateHyperjumpTo(m_hyperspace, d, w, t, checks) IN
    /\ m_hyperspace' = r.h
    /\ played' = IF r.status = HYPERJUMP_OK
                 THEN <<Sound("warmup_sound")>>
                 ELSE <<>>
    /\ lastCall' = "InitiateHyperjumpTo"
    /\ lastStatus' = r.status
    /\ events' = r.events
    /\ path' = r.path
    /\ sessions' = sessions + r.created
    /\ frameAtInitiate' = IF r.created = 1 THEN frame ELSE frameAtInitiate
    /\ seenByGame' = NotAsked
    /\ UNCHANGED <<frame, targets, controls, wantHyperspace>>

\* AbortHyperjump without the call of Ship::AbortHyperjump.
AbortHyperjump_NoBaseCall ==
    /\ played' = <<Sound("abort_sound")>>
    /\ lastCall' = "AbortHyperjump"
    /\ lastStatus' = "ABORTED"
    /\ events' = <<>>
    /\ path' = <<currentState>>
    /\ seenByGame' = NotAsked
    /\ UNCHANGED <<m_hyperspace, sessions, frameAtInitiate, frame, targets,
                   controls, wantHyperspace>>

\* Player::AbortHyperjump.
AbortHyperjump ==
    LET r == ShipAbortHyperjump(m_hyperspace) IN
    /\ played' = <<Sound("abort_sound")>>
    /\ m_hyperspace' = r.h
    /\ lastCall' = "AbortHyperjump"
    /\ lastStatus' = r.status
    /\ events' = r.events
    /\ path' = r.path
    /\ sessions' = sessions - r.destroyed
    /\ frameAtInitiate' = IF r.destroyed = 1 THEN NoFrame ELSE frameAtInitiate
    /\ seenByGame' = NotAsked
    /\ UNCHANGED <<frame, targets, controls, wantHyperspace>>

\* One tick of the simulation: the ship's update and the hook it calls.
Advance(dt) ==
    LET r == ShipTimeStep(m_hyperspace, frame, wantHyperspace, dt) IN
    /\ m_hyperspace' = r.h
    /\ frame' = r.frame
    /\ lastCall' = "Advance"
    /\ lastStatus' = r.hook
    /\ events' = r.events
    /\ path' = r.path
    /\ sessions' = sessions - r.destroyed
    /\ frameAtInitiate' = IF r.frame = frame THEN frameAtInitiate ELSE NoFrame
    /\ CASE r.hook = "OnEnterHyperspace" -> OnEnterHyperspace
         [] r.hook = "OnEnterSystem" ->
                OnEnterSystem /\ wantHyperspace' = r.want /\ seenByGame' = NotAsked
         [] OTHER ->
                /\ wantHyperspace' = r.want
                /\ seenByGame' = NotAsked
                /\ played' = <<>>
                /\ UNCHANGED <<targets, controls>>

\* ------------------------------------------------ the player's own inputs
\* A call that is no part of the hyperjump interface.
Input ==
    /\ lastCall' = "input"
    /\ lastStatus' = "none"
    /\ played' = <<>>
    /\ events' = <<>>
    /\ path' = <<currentState>>
    /\ seenByGame' = NotAsked
    /\ UNCHANGED <<m_hyperspace, frame, wantHyperspace, sessions, frameAtInitiate>>

\* Targets are bodies of the local space: a detached vehicle has none to pick.
SetNavTarget(target) ==
    /\ frame # NoFrame
    /\ navTarget' = target
    /\ Input
    /\ UNCHANGED <<combatTarget, setSpeedTarget, controls>>

SetCombatTarget(target, setSpeedTo) ==
    /\ frame # NoFrame
    /\ combatTarget' = target
    /\ setSpeedTarget' = IF setSpeedTo THEN target ELSE setSpeedTarget
    /\ Input
    /\ UNCHANGED <<navTarget, controls>>

SetSetSpeedTarget(target) ==
    /\ frame # NoFrame
    /\ setSpeedTarget' = target
    /\ Input
    /\ UNCHANGED <<navTarget, combatTarget, controls>>

SetFlightControlState(s) ==
    /\ flightControlState' = s
    /\ Input
    /\ UNCHANGED <<targets, thrusterState>>

SetThrusterState(v) ==
    /\ thrusterState' = v
    /\ Input
    /\ UNCHANGED <<targets, flightControlState>>

\* --------------------------------------------- a body leaves the space
\* Body identifiers tell what the body is: the odd ones are ships, the even
\* ones are hyperspace clouds, and ship b has left the cloud b + 1 behind when
\* it is the third of a group of four; the other ships have no cloud.
NumTargetBodies == 3
TargetBodies == 1..NumTargetBodies
IsShip(b) == b % 2 = 1
GetHyperspaceCloud(b) == IF b % 4 = 3 THEN b + 1 ELSE None

\* NotifyRemoved that leaves the set-speed target alone.
NotifyRemoved_KeepsSetSpeedTarget(removedBody) ==
    LET nav == IF navTarget = removedBody THEN None ELSE navTarget IN
    /\ navTarget' = IF combatTarget = removedBody /\ nav = None /\ IsShip(removedBody)
                    THEN GetHyperspaceCloud(removedBody)
                    ELSE nav
    /\ combatTarget' = IF combatTarget = removedBody THEN None ELSE combatTarget
    /\ setSpeedTarget' = setSpeedTarget
    /\ Input
    /\ UNCHANGED controls

\* NotifyRemoved without the test that no navigation target is left.
NotifyRemoved_CloudOverNavTarget(removedBody) ==
    LET nav == IF navTarget = removedBody THEN None ELSE navTarget IN
    /\ navTarget' = IF combatTarget = removedBody /\ IsShip(removedBody)
                    THEN GetHyperspaceCloud(removedBody)
                    ELSE nav
    /\ combatTarget' = IF combatTarget = removedBody THEN None ELSE combatTarget
    /\ setSpeedTarget' = IF setSpeedTarget = removedBody THEN None ELSE setSpeedTarget
    /\ Input
    /\ UNCHANGED controls

\* The space tells the player that removedBody is leaving it.  The base
\* class's NotifyRemoved touches no target.
NotifyRemoved(removedBody) ==
    LET nav == IF navTarget = removedBody THEN None ELSE navTarget IN
    /\ navTarget' = IF combatTarget = removedBody /\ nav = None /\ IsShip(removedBody)
                    THEN GetHyperspaceCloud(removedBody)
                    ELSE nav
    /\ combatTarget' = IF combatTarget = removedBody THEN None ELSE combatTarget
    /\ setSpeedTarget' = IF setSpeedTarget = removedBody THEN None ELSE setSpeedTarget
    /\ Input
    /\ UNCHANGED controls

\* ------------------------------------------------------ maneuver planner
\* Player::GetManeuverTime and Player::GetManeuverVelocity read the planner
\* (Pi::planner), the vehicle's frame and the orbit ComputeOrbit() returns.
\* The frames the vehicle's frame hangs from form a chain: frame <<s, d>> is d
\* links below the root <<s, 0>>.  Frame and Orbit follow sections 4.1 and 4.2
\* of the specification; what an Orbit method returns is kept as the call made
\* (method and arguments), so two results are equal when the calls are.
MaxNesting == 2
MaxStartTime == 1
MaxSemiMajorAxis == 1

ZeroVector == <<0, 0, 0>>
OffsetVels == {ZeroVector, <<1, 0, 0>>, <<0, 0, 1>>}
\* The velocity and the position the planner has stored.
PlannedTransfers ==
    {[vel |-> <<1, 0, 0>>, position |-> <<0, 1, 0>>],
     [vel |-> <<0, 1, 0>>, position |-> <<0, 0, 1>>]}
Planners ==
    {[offsetVel |-> o, vel |-> t.vel, position |-> t.position, startTime |-> st] :
        o \in OffsetVels, t \in PlannedTransfers, st \in 0..MaxStartTime}

ChainFrames == {<<1, d>> : d \in 0..MaxNesting}
FrameGraphs == [0..MaxNesting -> [rot : BOOLEAN, systemBody : BOOLEAN]]

\* vector3d::ExactlyEqual: every component compared with ==.
ExactlyEqual(a, b) == a[1] = b[1] /\ a[2] = b[2] /\ a[3] = b[3]

\* Frame::GetFrame: the frame an identifier resolves to, NoFrame (a null
\* pointer) when it resolves to none.
GetFrame(id) == IF id \in ChainFrames THEN id ELSE NoFrame
GetParent(f) == IF f[2] = 0 THEN NoFrame ELSE <<f[1], f[2] - 1>>
IsRotFrame(f) == frameGraph[f[2]].rot
\* The system body of a frame, None when it has none.  Every frame's body is
\* another one, and so is its mass.
GetSystemBody(f) == IF frameGraph[f[2]].systemBody THEN f[2] + 1 ELSE None
GetMass(systemBody) == systemBody

\* GetNonRotFrame that takes the parent, whatever its kind.
GetNonRotFrame_ParentOnly(f) ==
    [error |-> GetParent(f) = NoFrame, frame |-> GetParent(f)]

RECURSIVE GetNonRotFrame(_)
\* resolveToNonRotatingAncestor: walk the parent links until an INERTIAL frame
\* is found; a structural-inconsistency error when the root is reached without
\* one.
GetNonRotFrame(f) ==
    IF ~IsRotFrame(f) THEN [error |-> FALSE, frame |-> f]
    ELSE IF GetParent(f) = NoFrame THEN [error |-> TRUE, frame |-> NoFrame]
    ELSE GetNonRotFrame(GetParent(f))

\* What GetManeuverVelocity returns: the zero vector, or ("delta")
\*   vel - playerOrbit.OrbitalVelocityAtTime(mass,
\*             playerOrbit.OrbitalTimeAtPos(position, mass)).
ZeroVelocity == [kind |-> "zero", vel |-> ZeroVector, mass |-> 0, position |-> ZeroVector]
DeltaVelocity(vel, mass, position) ==
    [kind |-> "delta", vel |-> vel, mass |-> mass, position |-> position]

NoManeuver ==
    [call |-> "none", fault |-> "none", time |-> 0, velocity |-> ZeroVelocity]
TimeReturned(t) ==
    [call |-> "GetManeuverTime", fault |-> "none", time |-> t, velocity |-> ZeroVelocity]
VelocityReturned(v) ==
    [call |-> "GetManeuverVelocity", fault |-> "none", time |-> 0, velocity |-> v]
VelocityFaulted(fault) ==
    [call |-> "GetManeuverVelocity", fault |-> fault, time |-> 0, velocity |-> ZeroVelocity]

GetManeuverTime ==
    /\ maneuver' = TimeReturned(IF ExactlyEqual(planner.offsetVel, ZeroVector)
                                THEN 0
                                ELSE planner.startTime)
    /\ UNCHANGED <<hyperjumpVars, frameGraph, planner, semiMajorAxis, removed, luaVars,
                   creakVars>>

\* GetManeuverVelocity from the line that reads the frame's system body on:
\* f is the frame the first lines have settled on.
ManeuverVelocity(f) ==
    LET systemBody == GetSystemBody(f) IN
    IF ExactlyEqual(planner.offsetVel, ZeroVector) THEN ZeroVelocity
    ELSE IF systemBody # None /\ semiMajorAxis # 0
         THEN DeltaVelocity(planner.vel, GetMass(systemBody), planner.position)
         ELSE ZeroVelocity

\* GetManeuverVelocity that reads the system body of the vehicle's own frame.
GetManeuverVelocity_OwnFrame ==
    /\ maneuver' \in
         IF GetFrame(frame) = NoFrame
         THEN {VelocityFaulted("null frame"), VelocityReturned(ZeroVelocity)}
         ELSE {VelocityReturned(ManeuverVelocity(GetFrame(frame)))}
    /\ UNCHANGED <<hyperjumpVars, frameGraph, planner, semiMajorAxis, removed, luaVars,
                   creakVars>>

\* The first lines call IsRotFrame on what Frame::GetFrame returned, before
\* anything else is tested: on a null pointer that is undefined, the call
\* faults or goes on with what it finds at that address.
GetManeuverVelocity ==
    /\ maneuver' \in
         IF GetFrame(frame) = NoFrame
         THEN {VelocityFaulted("null frame"), VelocityReturned(ZeroVelocity)}
         ELSE LET r == IF IsRotFrame(GetFrame(frame))
                       THEN GetNonRotFrame(GetFrame(frame))
                       ELSE [error |-> FALSE, frame |-> GetFrame(frame)] IN
              IF r.error
              THEN {VelocityFaulted("structural inconsistency")}
              ELSE {VelocityReturned(ManeuverVelocity(r.frame))}
    /\ UNCHANGED <<hyperjumpVars, frameGraph, planner, semiMajorAxis, removed, luaVars,
                   creakVars>>

\* ------------------------------------------------- Lua methods of Body
\* The bodies a script can hold: the player's ship and another ship (dynamic
\* bodies), a planet (a terrain body) and a station.  A ship is in the
\* planet's non-rotating frame, in its rotating frame, in the station's
\* rotating frame, or in no frame when it is not in space.  Positions are
\* kept along one axis, the planet at the origin; latitude and longitude are
\* kept as the position they are taken of.
MaxPosition == 4
MaxTerrainHeight == 1

LuaBodies == {"player", "ship", "planet", "station"}
Ships == {"player", "ship"}
ShipFrames == {"none", "planet", "planet surface", "station"}
Spaces == [frame : [Ships -> ShipFrames], pos : [Ships -> 0..MaxPosition]]

IsDynamicBody(b) == b \in Ships
IsTerrainBody(b) == b = "planet"
IsInSpace(b) == b \in Ships => space.frame[b] # "none"
FrameIsRot(f) == f \in {"planet surface", "station"}
FrameBody(f) == IF f = "station" THEN "station" ELSE "planet"

Position(b) ==
    IF b \in Ships THEN space.pos[b]
    ELSE IF b = "planet" THEN 0
    ELSE MaxPosition
GetPositionRelTo(b, other) == Position(b) - Position(other)
\* The position of a ship in its frame.
GetPosition(b) == Position(b) - Position(FrameBody(space.frame[b]))
Length(v) == IF v < 0 THEN -v ELSE v
GetTerrainHeight(b) == terrainHeight
GetMaxFeatureRadius(b) == terrainHeight

\* Lua values.
Nil == [t |-> "nil", of |-> "", n |-> 0]
Number(n) == [t |-> "number", of |-> "", n |-> n]
Latitude(pos) == [t |-> "number", of |-> "latitude", n |-> pos]
Longitude(pos) == [t |-> "number", of |-> "longitude", n |-> pos]

NoLuaCall ==
    [call |-> "none", self |-> "player", other |-> "player", error |-> "",
     fault |-> FALSE, values |-> <<>>]
LuaReturned(call, b, other, values) ==
    [call |-> call, self |-> b, other |-> other, error |-> "",
     fault |-> FALSE, values |-> values]
LuaError(call, b, other, message) ==
    [call |-> call, self |-> b, other |-> other, error |-> message,
     fault |-> FALSE, values |-> <<>>]
LuaFaulted(call, b, other) ==
    [call |-> call, self |-> b, other |-> other, error |-> "",
     fault |-> TRUE, values |-> <<>>]

\* DistanceTo that tests the first body only.
DistanceTo_FirstOnly(b1, b2) ==
    /\ luaReturn' =
         IF ~IsInSpace(b1)
         THEN LuaError("DistanceTo", b1, b2, "arg #1 is not in space")
         ELSE LuaReturned("DistanceTo", b1, b2,
                          <<Number(Length(GetPositionRelTo(b1, b2)))>>)
    /\ UNCHANGED <<hyperjumpVars, plannerVars, removed, space, terrainHeight,
                   attr, creakVars>>

\* l_body_distance_to
DistanceTo(b1, b2) ==
    /\ luaReturn' =
         IF ~IsInSpace(b1)
         THEN LuaError("DistanceTo", b1, b2, "arg #1 is not in space")
         ELSE IF ~IsInSpace(b2)
         THEN LuaError("DistanceTo", b1, b2, "arg #2 is not in space")
         ELSE LuaReturned("DistanceTo", b1, b2,
                          <<Number(Length(GetPositionRelTo(b1, b2)))>>)
    /\ UNCHANGED <<hyperjumpVars, plannerVars, removed, space, terrainHeight,
                   attr, creakVars>>

\* l_body_get_ground_position.  IsRotFrame is called on what Frame::GetFrame
\* returned: for a dynamic body that is in no frame that is a null pointer,
\* and the call faults or goes on with what it finds at that address.
GetGroundPosition(b) ==
    /\ luaReturn' \in
         IF ~IsDynamicBody(b)
         THEN {LuaReturned("GetGroundPosition", b, b, <<Nil>>)}
         ELSE IF space.frame[b] = "none"
         THEN {LuaFaulted("GetGroundPosition", b, b),
               LuaReturned("GetGroundPosition", b, b, <<>>)}
         ELSE IF ~FrameIsRot(space.frame[b])
         THEN {LuaReturned("GetGroundPosition", b, b, <<>>)}
         ELSE LET pos == GetPosition(b)
                  astro == FrameBody(space.frame[b]) IN
              {LuaReturned("GetGroundPosition", b, b,
                  <<Latitude(pos), Longitude(pos),
                    IF IsTerrainBody(astro)
                    THEN Number(Length(pos) - GetTerrainHeight(astro))
                    ELSE Nil>>)}
    /\ UNCHANGED <<hyperjumpVars, plannerVars, removed, space, terrainHeight,
                   attr, creakVars>>

\* l_body_get_altitude_rel_to: the position is the player's, whatever body
\* the method is called on.  The player and the other body are in space.
GetAltitudeRelTo(b, other) ==
    /\ IsInSpace("player") /\ IsInSpace(b) /\ IsInSpace(other)
    /\ LET pos == GetPositionRelTo("player", other)
           center_dist == Length(pos)
           radius == IF center_dist <= 3 * GetMaxFeatureRadius(other)
                     THEN GetTerrainHeight(other)
                     ELSE 0
           altitude == center_dist - radius
       IN luaReturn' =
            IF IsTerrainBody(other)
            THEN LuaReturned("GetAltitudeRelTo", b, other,
                             <<Number(IF altitude < 0 THEN 0 ELSE altitude)>>)
            ELSE LuaReturned("GetAltitudeRelTo", b, other, <<Number(center_dist)>>)
    /\ UNCHANGED <<hyperjumpVars, plannerVars, removed, space, terrainHeight,
                   attr, creakVars>>

\* ------------------------------------------- Lua attributes of SystemBody
\* src/src/lua/LuaSystemBody.cpp.  A system body is known by its path; the
\* game, when there is one, has a space or none, and the space holds a
\* physics body for some of the paths.
NumSystemBodies == 5
SystemBodies == 1..NumSystemBodies

NoGame == [game |-> FALSE, space |-> FALSE, bodies |-> {}]
GameWithoutSpace == [game |-> TRUE, space |-> FALSE, bodies |-> {}]
GameWithSpace(bodies) == [game |-> TRUE, space |-> TRUE, bodies |-> bodies]
Games == {NoGame, GameWithoutSpace} \cup {GameWithSpace(B) : B \in SUBSET SystemBodies}

GetSpace == game.space
\* The body of the space that has the path, None when the space has none.
FindBodyForPath(sbodyPath) ==
    IF sbodyPath \in game.bodies THEN sbodyPath ELSE None

Userdata(of, n) == [t |-> "userdata", of |-> of, n |-> n]

\* What a C function that returns n hands to Lua: the n values on top of the
\* stack it leaves.
Results(stack, n) == SubSeq(stack, Len(stack) - n + 1, Len(stack))

\* l_sbody_attr_body, entered with the system body as the one argument on
\* the stack.  It returns 1 on every path.
l_sbody_attr_body(sbody) ==
    LET entered == <<Userdata("SystemBody", sbody)>>
        body == FindBodyForPath(sbody)
        left == IF game.game
                THEN IF GetSpace
                     THEN IF body # None
                          THEN Append(entered, Userdata("Body", body))
                          ELSE Append(entered, Nil)
                     ELSE entered
                ELSE Append(entered, Nil)
    IN
    /\ attr' = [attr EXCEPT !.luaStack = left]
    /\ luaReturn' = LuaReturned("body", sbody, sbody, Results(left, 1))
    /\ UNCHANGED <<hyperjumpVars, plannerVars, removed, space, terrainHeight,
                   creakVars>>

\* ------------------------------------------------------- the creak sound
\* Player::StaticUpdate keeps the last five jerk values (the change of the
\* acceleration from one update to the next) and plays a creaking sound while
\* the jerk keeps changing.  Accelerations are kept along one axis, in units
\* of 1/JerkScale m s-2, and the game's time acceleration rate is at least 1.
MaxAccel == 2
JerkScale == 4
MaxTimeAccelRate == 2
\* The threshold 0.5f, in tenths.
CreakThresholdTenths == 5

Accels == 0..MaxAccel
Jerks == (0 - MaxAccel)..MaxAccel
TimeAccelRates == 1..MaxTimeAccelRate

\* length * Pi::game->GetInvTimeAccelRate() < 0.5f
BelowThreshold(length, rate) ==
    10 * length < CreakThresholdTenths * JerkScale * rate

\* The last five entries of q, all of q when it has fewer.
LastFive(q) == IF Len(q) <= 5 THEN q ELSE SubSeq(q, Len(q) - 4, Len(q))

\* StaticUpdate looking at the latest change of the jerk only.
StaticUpdate_LatestOnly(current_accel, rate) ==
    LET jerk == [i \in 1..5 |-> IF i < 5 THEN m_jerk[i + 1]
                                ELSE current_accel - m_accel]
        playCreak == ~BelowThreshold(Length(jerk[5] - jerk[4]), rate)
        IsPlaying == m_creakSound # "stopped"
    IN
    /\ creak' =
         [m_jerk |-> jerk,
          m_creakSound |->
              IF playCreak
              THEN IF ~IsPlaying THEN "playing" ELSE m_creakSound
              ELSE IF IsPlaying THEN "stopping" ELSE m_creakSound,
          creakStarted |-> (playCreak /\ ~IsPlaying),
          m_accel |-> current_accel,
          arrived |-> LastFive(Append(arrived, current_accel - m_accel))]
    /\ UNCHANGED <<hyperjumpVars, plannerVars, removed, luaVars>>

\* Player::StaticUpdate, the jerk history and the creak sound of it; the
\* ship's acceleration in this update is current_accel.
StaticUpdate(current_accel, rate) ==
    LET jerk == [i \in 1..5 |-> IF i < 5 THEN m_jerk[i + 1]
                                ELSE current_accel - m_accel]
        playCreak == \A i \in 2..5 :
                        ~BelowThreshold(Length(jerk[i] - jerk[i - 1]), rate)
        IsPlaying == m_creakSound # "stopped"
    IN
    /\ creak' =
         [m_jerk |-> jerk,
          m_creakSound |->
              IF playCreak
              THEN IF ~IsPlaying THEN "playing" ELSE m_creakSound
              ELSE IF IsPlaying THEN "stopping" ELSE m_creakSound,
          creakStarted |-> (playCreak /\ ~IsPlaying),
          m_accel |-> current_accel,
          arrived |-> LastFive(Append(arrived, current_accel - m_accel))]
    /\ UNCHANGED <<hyperjumpVars, plannerVars, removed, luaVars>>

\* The sound that was told to stop at its target volume has reached it.
CreakSoundStops ==
    /\ m_creakSound = "stopping"
    /\ creak' = [creak EXCEPT !.m_creakSound = "stopped"]
    /\ UNCHANGED <<hyperjumpVars, plannerVars, removed, luaVars>>

\* ---------------------------------------------------------- specification
\* The requests a call of InitiateHyperjumpTo is tried with.  A call the ship
\* rejects (a jump is running, or a check fails) returns before it reads the
\* destination or the durations: one request stands for all of them there.
Requests == Systems \X (1..MaxWarmup) \X (1..MaxTransit)

RequestsRead(checks) ==
    IF currentState = "IDLE" /\ FirstFailure(checks) = HYPERJUMP_OK
    THEN Requests
    ELSE {<<1, 1, 1>>}

\* The player as constructed, its frame membership apart.
Constructed ==
    /\ m_hyperspace = IdleSession
    /\ navTarget = None
    /\ combatTarget = None
    /\ setSpeedTarget = None
    /\ flightControlState = "CONTROL_MANUAL"
    /\ thrusterState = 0
    /\ wantHyperspace = FALSE
    /\ sessions = 0
    /\ frameAtInitiate = NoFrame
    /\ lastCall = "none"
    /\ lastStatus = "none"
    /\ played = <<>>
    /\ events = <<>>
    /\ path = <<"IDLE">>
    /\ seenByGame = NotAsked

\* The player in hyperspace: a jump to system 1 has committed and a tick has
\* passed since, the vehicle is in no frame.
InHyperspace ==
    /\ m_hyperspace = [currentState |-> "TRANSIT", dest |-> 1, warmupDuration |-> 1,
                       transitDuration |-> MaxTransit, elapsed |-> MaxTransit,
                       committedAt |-> 1]
    /\ frame = NoFrame
    /\ navTarget = None
    /\ combatTarget = None
    /\ setSpeedTarget = None
    /\ flightControlState = "CONTROL_MANUAL"
    /\ thrusterState = 0
    /\ wantHyperspace = FALSE
    /\ sessions = 1
    /\ frameAtInitiate = NoFrame
    /\ lastCall = "Advance"
    /\ lastStatus = "none"
    /\ played = <<>>
    /\ events = <<>>
    /\ path = <<"COMMITTED", "TRANSIT">>
    /\ seenByGame = NotAsked

\* What a specification holds the variables at that none of its actions
\* reads or writes.
LeftOut == <<>>

\* The maneuver queries are left out.
NothingPlanned ==
    /\ frameGraph = LeftOut
    /\ planner = LeftOut
    /\ semiMajorAxis = LeftOut
    /\ maneuver = LeftOut

NoRemoval == [body |-> None, nav |-> None, combat |-> None, setSpeed |-> None]

\* The creak sound is left out.
NoStaticUpdate == creak = LeftOut

\* The Lua methods of Body are left out.
NoScript ==
    /\ space = LeftOut
    /\ terrainHeight = LeftOut
    /\ luaReturn = LeftOut
    /\ attr = LeftOut

Init ==
    /\ Constructed
    /\ frame \in LocalFrames
    /\ NothingPlanned
    /\ removed = NoRemoval
    /\ NoStaticUpdate
    /\ NoScript

\* The handlers of Player read and write none of these.
PlayerOnly == UNCHANGED <<plannerVars, removed, luaVars, creakVars>>

Next ==
    \/ /\ \E checks \in CheckLists : \E rq \in RequestsRead(checks) :
                InitiateHyperjumpTo(rq[1], rq[2], rq[3], checks)
       /\ PlayerOnly
    \/ /\ AbortHyperjump
       /\ PlayerOnly
    \/ /\ \E dt \in 1..MaxDelta : Advance(dt)
       /\ PlayerOnly
    \/ /\ \E b \in Bodies \cup {None} : SetNavTarget(b)
       /\ PlayerOnly
    \/ /\ \E b \in Bodies \cup {None}, setSpeedTo \in BOOLEAN :
                SetCombatTarget(b, setSpeedTo)
       /\ PlayerOnly
    \/ /\ \E b \in Bodies \cup {None} : SetSetSpeedTarget(b)
       /\ PlayerOnly
    \/ /\ \E s \in FlightControlStates : SetFlightControlState(s)
       /\ PlayerOnly
    \/ /\ \E v \in ThrusterStates : SetThrusterState(v)
       /\ PlayerOnly
    \/ /\ \E b \in Bodies : NotifyRemoved(b)
       /\ PlayerOnly

Spec == Init /\ [][Next]_vars

\* The simulation loop calls the per-tick update again and again, with a
\* positive time step.
Tick ==
    /\ \E dt \in 1..MaxDelta : Advance(dt)
    /\ PlayerOnly

FairSpec == Spec /\ WF_vars(Tick)

\* The maneuver queries, asked in any state of vehicle, frames and planner.
\* The frame membership is any the hyperjump life cycle leaves the vehicle
\* with: a frame of the chain, or none between commit and arrival.
PlannerInit ==
    /\ \/ Constructed /\ frame \in ChainFrames
       \/ InHyperspace
    /\ frameGraph \in FrameGraphs
    /\ planner \in Planners
    /\ semiMajorAxis \in 0..MaxSemiMajorAxis
    /\ maneuver = NoManeuver
    /\ removed = NoRemoval
    /\ NoStaticUpdate
    /\ NoScript

PlannerNext ==
    \/ GetManeuverTime
    \/ GetManeuverVelocity

PlannerSpec == PlannerInit /\ [][PlannerNext]_vars

\* Bodies leave the space the player is in, and the player picks targets
\* among the ones in it: ships with and without a hyperspace cloud, and clouds.
RemovalInit ==
    /\ Constructed
    /\ frame = RootFrame(1)
    /\ NothingPlanned
    /\ removed = NoRemoval
    /\ NoStaticUpdate
    /\ NoScript

RemovalNext ==
    \/ /\ \E b \in TargetBodies :
            /\ NotifyRemoved(b)
            /\ removed' = [body |-> b, nav |-> navTarget, combat |-> combatTarget,
                           setSpeed |-> setSpeedTarget]
       /\ UNCHANGED <<plannerVars, luaVars, creakVars>>
    \/ /\ \E b \in TargetBodies \cup {None} : SetNavTarget(b)
       /\ removed' = NoRemoval
       /\ UNCHANGED <<plannerVars, luaVars, creakVars>>
    \/ /\ \E b \in TargetBodies \cup {None}, setSpeedTo \in BOOLEAN :
                SetCombatTarget(b, setSpeedTo)
       /\ removed' = NoRemoval
       /\ UNCHANGED <<plannerVars, luaVars, creakVars>>
    \/ /\ \E b \in TargetBodies \cup {None} : SetSetSpeedTarget(b)
       /\ removed' = NoRemoval
       /\ UNCHANGED <<plannerVars, luaVars, creakVars>>

RemovalSpec == RemovalInit /\ [][RemovalNext]_vars

\* The Lua methods of Body, called on any pair of bodies in any placing of the
\* ships.
LuaInit ==
    /\ Constructed
    /\ frame = RootFrame(1)
    /\ NothingPlanned
    /\ removed = NoRemoval
    /\ NoStaticUpdate
    /\ space \in Spaces
    /\ terrainHeight \in 1..MaxTerrainHeight
    /\ luaReturn = NoLuaCall
    /\ attr = LeftOut

LuaNext ==
    \/ \E b1 \in LuaBodies, b2 \in LuaBodies : DistanceTo(b1, b2)
    \/ \E b \in LuaBodies : GetGroundPosition(b)
    \/ \E b \in LuaBodies, other \in LuaBodies : GetAltitudeRelTo(b, other)

LuaSpec == LuaInit /\ [][LuaNext]_vars

\* The attribute body of a SystemBody, read in any situation of the game.
SystemBodyInit ==
    /\ Constructed
    /\ frame = RootFrame(1)
    /\ NothingPlanned
    /\ removed = NoRemoval
    /\ NoStaticUpdate
    /\ space = LeftOut
    /\ terrainHeight = LeftOut
    /\ luaReturn = NoLuaCall
    /\ attr \in {[game |-> g, luaStack |-> <<>>] : g \in Games}

SystemBodyNext == \E sbody \in SystemBodies : l_sbody_attr_body(sbody)

SystemBodySpec == SystemBodyInit /\ [][SystemBodyNext]_vars

\* The player's updates, under any acceleration.  m_jerk[0] is constructed
\* zero; the other entries and, for a player loaded from a saved game,
\* m_accel are default-constructed vectors, which the vector class may leave
\* unset: they start with any value.
CreakInit ==
    /\ Constructed
    /\ frame = RootFrame(1)
    /\ NothingPlanned
    /\ removed = NoRemoval
    /\ NoScript
    /\ creak \in {[m_jerk |-> <<0, j2, j3, j4, j5>>, m_accel |-> a,
                    m_creakSound |-> "stopped", arrived |-> <<>>,
                    creakStarted |-> FALSE] :
                       j2 \in Jerks, j3 \in Jerks, j4 \in Jerks, j5 \in Jerks,
                       a \in Accels}

CreakNext ==
    \/ \E current_accel \in Accels, rate \in TimeAccelRates :
            StaticUpdate(current_accel, rate)
    \/ CreakSoundStops

CreakSpec == CreakInit /\ [][CreakNext]_vars


\* ------------------------------------------------------------------ claims
NoTargets == <<None, None, None>>
InitiateCalled == lastCall' = "InitiateHyperjumpTo"
AbortCalled == lastCall' = "AbortHyperjump"
AdvanceCalled == lastCall' = "Advance"
Committed == AdvanceCalled /\ lastStatus' = "OnEnterHyperspace"
Arrived == AdvanceCalled /\ lastStatus' = "OnEnterSystem"
InSeq(x, q) == \E i \in 1..Len(q) : q[i] = x

\* C1: a call of InitiateHyperjumpTo made in IDLE that returns a status other
\* than HYPERJUMP_OK returns the rejection reason of a check, leaves the session
\* (state IDLE), the frame membership, the three targets and the controls as
\* they were, emits no event and plays no warmup sound.
C1_RejectedInitiateChangesNothing ==
    [][(InitiateCalled /\ currentState = "IDLE" /\ lastStatus' # HYPERJUMP_OK)
        => /\ lastStatus' \in RejectionReasons
           /\ currentState' = "IDLE"
           /\ UNCHANGED <<m_hyperspace, frame, targets, controls, sessions>>
           /\ events' = <<>>
           /\ ~InSeq(Sound("warmup_sound"), played')]_vars

\* C1's case: a check has just rejected the jump while all three targets were set.
C1_Witness ==
    /\ lastCall = "InitiateHyperjumpTo"
    /\ lastStatus \in RejectionReasons
    /\ currentState = "IDLE"
    /\ navTarget # None /\ combatTarget # None /\ setSpeedTarget # None

C3_InitiateWhileJumpingRejected ==
    [][(InitiateCalled /\ currentState # "IDLE")
        => /\ lastStatus' = PRECONDITION_VIOLATION
           /\ UNCHANGED <<m_hyperspace, frame, sessions>>
           /\ events' = <<>>
           /\ played' = <<>>]_vars

\* C3's case: initiate has just been rejected while the jump was committed.
C3_Witness ==
    /\ lastCall = "InitiateHyperjumpTo"
    /\ lastStatus = PRECONDITION_VIOLATION
    /\ currentState = "COMMITTED"

\* C4: a call of AbortHyperjump made in any state other than WARMUP fails with
\* a precondition violation and changes nothing (session, frame membership,
\* targets, controls, nothing emitted or played), and a jump that is COMMITTED
\* or in TRANSIT leaves that state only by arriving.
C4_AbortOutsideWarmupChangesNothing ==
    [][/\ (AbortCalled /\ currentState # "WARMUP")
            => /\ lastStatus' = PRECONDITION_VIOLATION
               /\ UNCHANGED <<m_hyperspace, frame, targets, controls,
                              wantHyperspace, sessions>>
               /\ events' = <<>>
               /\ played' = <<>>
       /\ (currentState \in {"COMMITTED", "TRANSIT"} /\ currentState' = "IDLE")
            => Arrived /\ events' = <<"ARRIVED">>]_vars

\* C4 without what the call plays: the rejected abort leaves the session, the
\* frame membership, the targets and the controls as they were, and a
\* committed jump ends only by arriving.
C4_AbortOutsideWarmupKeepsState ==
    [][/\ (AbortCalled /\ currentState # "WARMUP")
            => /\ lastStatus' = PRECONDITION_VIOLATION
               /\ UNCHANGED <<m_hyperspace, frame, targets, controls,
                              wantHyperspace, sessions>>
               /\ events' = <<>>
       /\ (currentState \in {"COMMITTED", "TRANSIT"} /\ currentState' = "IDLE")
            => Arrived /\ events' = <<"ARRIVED">>]_vars

\* C5: a call of AbortHyperjump made in WARMUP, so before warmupDuration has
\* elapsed, goes through ABORTED to IDLE, and the frame membership after it is
\* the frame membership the vehicle had when InitiateHyperjumpTo was called.
C5_AbortInWarmupKeepsFrame ==
    [][(AbortCalled /\ currentState = "WARMUP")
        => /\ m_hyperspace.elapsed < m_hyperspace.warmupDuration
           /\ currentState' = "IDLE"
           /\ path' = <<"WARMUP", "ABORTED", "IDLE">>
           /\ frame' = frameAtInitiate
           /\ frame' \in LocalFrames]_vars

\* C5's case: a jump begun in a frame that is not the root has just been
\* aborted, and the vehicle is in that frame.
C5_Witness ==
    /\ lastCall = "AbortHyperjump"
    /\ lastStatus = "ABORTED"
    /\ currentState = "IDLE"
    /\ frame \in LocalFrames /\ frame[2] # 0

\* C6: in WARMUP the accumulated advance time is below warmupDuration and the
\* vehicle is in a frame; an advance in WARMUP adds its deltaTime to the
\* accumulated time and, when that reaches warmupDuration, ends COMMITTED with
\* the vehicle detached; COMMITTED and TRANSIT occur only with the accumulated
\* time at or above warmupDuration.
C6_CommitWhenWarmupElapsed ==
    /\ [](currentState = "WARMUP"
            => /\ m_hyperspace.elapsed < m_hyperspace.warmupDuration
               /\ frame \in LocalFrames)
    /\ [](currentState \in {"COMMITTED", "TRANSIT"}
            => /\ m_hyperspace.elapsed >= m_hyperspace.warmupDuration
               /\ m_hyperspace.committedAt >= m_hyperspace.warmupDuration
               /\ frame = NoFrame)
    /\ [][(AdvanceCalled /\ currentState = "WARMUP")
            => /\ m_hyperspace'.elapsed > m_hyperspace.elapsed
               /\ IF m_hyperspace'.elapsed >= m_hyperspace.warmupDuration
                  THEN currentState' = "COMMITTED" /\ frame' = NoFrame /\ Committed
                  ELSE currentState' = "WARMUP" /\ frame' = frame]_vars

\* C6's case: the accumulated time has just reached a warmupDuration of more
\* than one time unit: the jump is COMMITTED and the vehicle detached.
C6_Witness ==
    /\ lastCall = "Advance"
    /\ lastStatus = "OnEnterHyperspace"
    /\ currentState = "COMMITTED"
    /\ frame = NoFrame
    /\ m_hyperspace.warmupDuration > 1
    /\ m_hyperspace.committedAt = m_hyperspace.warmupDuration

\* C7: whatever the deltaTime, an advance that leaves WARMUP ends COMMITTED
\* with the vehicle detached and the commit notified; an arrival starts from
\* COMMITTED or TRANSIT with the vehicle detached and goes through TRANSIT and
\* ARRIVING; a jump ends (IDLE again) only by an abort in WARMUP or an arrival.
C7_LargeTickSkipsNothing ==
    [][/\ (AdvanceCalled /\ currentState = "WARMUP" /\ currentState' # "WARMUP")
            => /\ Committed
               /\ currentState' = "COMMITTED"
               /\ frame' = NoFrame
               /\ path' = <<"WARMUP", "COMMITTED">>
       /\ Arrived
            => /\ currentState \in {"COMMITTED", "TRANSIT"}
               /\ frame = NoFrame
               /\ Len(path') >= 3
               /\ SubSeq(path', Len(path') - 2, Len(path'))
                    = <<"TRANSIT", "ARRIVING", "IDLE">>
       /\ (currentState # "IDLE" /\ currentState' = "IDLE")
            => \/ Arrived
               \/ AbortCalled /\ currentState = "WARMUP"
       /\ (AdvanceCalled /\ currentState \in {"COMMITTED", "TRANSIT"})
            => currentState' \in {"TRANSIT", "IDLE"}]_vars

\* C7's case: one tick longer than warmupDuration plus transitDuration has left
\* the jump COMMITTED, not arrived.
C7_Witness ==
    /\ lastCall = "Advance"
    /\ currentState = "COMMITTED"
    /\ frame = NoFrame
    /\ m_hyperspace.committedAt
         > m_hyperspace.warmupDuration + m_hyperspace.transitDuration
    /\ m_hyperspace.committedAt = m_hyperspace.elapsed

RECURSIVE EventsOf(_)
EventsOf(q) ==
    IF Len(q) < 2 THEN <<>>
    ELSE (CASE <<q[1], q[2]>> = <<"IDLE", "WARMUP">> -> <<"WARMUP_STARTED">>
            [] <<q[1], q[2]>> = <<"WARMUP", "COMMITTED">> -> <<"COMMITTED">>
            [] <<q[1], q[2]>> = <<"WARMUP", "ABORTED">> -> <<"ABORTED">>
            [] <<q[1], q[2]>> = <<"ARRIVING", "IDLE">> -> <<"ARRIVED">>
            [] OTHER -> <<>>)
         \o EventsOf(Tail(q))

\* C9: every call that changes the state emits the event of its transition and
\* makes the player's notification of it: WARMUP_STARTED and the warmup sound
\* from IDLE to WARMUP, COMMITTED and the jump sound from WARMUP to COMMITTED,
\* ABORTED and the abort sound from WARMUP back to IDLE, ARRIVED (for the
\* player no sound: the sector view's hyperspace target is reset) on arrival;
\* the events of a call are those of the transitions it made, in their order.
C9_TransitionsNotified ==
    [][/\ (currentState = "IDLE" /\ currentState' = "WARMUP")
            => /\ events' = <<"WARMUP_STARTED">>
               /\ played' = <<Sound("warmup_sound")>>
       /\ (currentState = "WARMUP" /\ currentState' = "COMMITTED")
            => /\ events' = <<"COMMITTED">>
               /\ played' = <<Sound("jump_sound")>>
       /\ (currentState = "WARMUP" /\ currentState' = "IDLE")
            => /\ events' = <<"ABORTED">>
               /\ played' = <<Sound("abort_sound")>>
       /\ (currentState \in {"COMMITTED", "TRANSIT"} /\ currentState' = "IDLE")
            => /\ events' = <<"ARRIVED">>
               /\ played' = <<ResetHyperspaceTarget>>
       /\ path'[1] = currentState
       /\ path'[Len(path')] = currentState'
       /\ events' = EventsOf(path')]_vars

\* C9's case: the jump has just committed: the COMMITTED event and the jump sound.
C9_Witness ==
    /\ path = <<"WARMUP", "COMMITTED">>
    /\ events = <<"COMMITTED">>
    /\ played = <<Sound("jump_sound")>>

\* The transitions of the state machine.
Edges ==
    {<<"IDLE", "WARMUP">>, <<"WARMUP", "COMMITTED">>, <<"COMMITTED", "TRANSIT">>,
     <<"TRANSIT", "ARRIVING">>, <<"ARRIVING", "IDLE">>,
     <<"WARMUP", "ABORTED">>, <<"ABORTED", "IDLE">>}

\* C10: there is never more than one live session, and there is one exactly
\* when the state is not IDLE; the states a call passes through begin at the
\* state it was made in, end at the state it leaves, and each step between them
\* is a transition of the machine; WARMUP goes back to IDLE only by
\* AbortHyperjump.
C10_OneSessionForwardOnly ==
    /\ [](sessions \in {0, 1} /\ (sessions = 1 <=> currentState # "IDLE"))
    /\ [](currentState \in {"IDLE", "WARMUP", "COMMITTED", "TRANSIT"})
    /\ [][/\ path'[1] = currentState
          /\ path'[Len(path')] = currentState'
          /\ \A i \in 1..(Len(path') - 1) : <<path'[i], path'[i + 1]>> \in Edges
          /\ InSeq("ABORTED", path') => AbortCalled /\ currentState = "WARMUP"]_vars

\* C10's case: initiate has been called during TRANSIT and there is still one
\* session, in TRANSIT.
C10_Witness ==
    /\ lastCall = "InitiateHyperjumpTo"
    /\ currentState = "TRANSIT"
    /\ sessions = 1

\* ------------------------------------------------- maneuver planner claims
\* The frame graph is sound: the root is INERTIAL, so every frame has a
\* non-rotating ancestor or is one.
GraphSound == ~frameGraph[0].rot

\* The nearest frame at or above f that does not rotate, in a sound graph.
NearestInertial(f) ==
    LET depths == {d \in 0..f[2] : ~frameGraph[d].rot}
    IN <<f[1], CHOOSE d \in depths : \A e \in depths : e <= d>>

ZeroOffset == ExactlyEqual(planner.offsetVel, ZeroVector)
TimeAsked == maneuver.call = "GetManeuverTime"
VelocityAsked == maneuver.call = "GetManeuverVelocity"

\* C11: with a zero desired offset GetManeuverTime has returned 0 and
\* GetManeuverVelocity the zero vector, without faulting, in every state of
\* the vehicle: in a frame with or without a system body, or detached from any
\* frame.
C11_ZeroOffsetNoManeuver ==
    (GraphSound /\ ZeroOffset /\ maneuver.call # "none") =>
        /\ maneuver.fault = "none"
        /\ maneuver.time = 0
        /\ maneuver.velocity = ZeroVelocity

\* What holds of C11: the same, of a vehicle that is in a frame.
C11_ZeroOffsetNoManeuverInFrame ==
    (GraphSound /\ ZeroOffset /\ frame # NoFrame /\ maneuver.call # "none") =>
        /\ maneuver.fault = "none"
        /\ maneuver.time = 0
        /\ maneuver.velocity = ZeroVelocity

\* The vehicle orbits a system body and the orbit is degenerate.
DegenerateOrbit ==
    /\ GraphSound
    /\ frame # NoFrame
    /\ GetSystemBody(NearestInertial(frame)) # None
    /\ semiMajorAxis = 0

\* C12: with a non-zero offset and a degenerate current orbit (semi-major
\* axis zero) GetManeuverVelocity has returned the zero vector and
\* GetManeuverTime has returned 0.
C12_DegenerateOrbitNoManeuver ==
    (~ZeroOffset /\ DegenerateOrbit /\ maneuver.call # "none") =>
        /\ maneuver.fault = "none"
        /\ maneuver.time = 0
        /\ maneuver.velocity = ZeroVelocity

\* What holds of C12: the velocity is the zero vector.
C12_DegenerateOrbitZeroVelocity ==
    (~ZeroOffset /\ DegenerateOrbit /\ VelocityAsked) =>
        maneuver.fault = "none" /\ maneuver.velocity = ZeroVelocity

\* ------------------------------------------------------ NotifyRemoved claims
\* NotifyRemoved(b) has just returned.
JustRemoved(b) == b # None /\ removed.body = b

NotTargeted(b) == navTarget # b /\ combatTarget # b /\ setSpeedTarget # b

\* C13 as stated: after NotifyRemoved(b) every one of the navigation, combat
\* and set-speed targets that referred to b is none, and no target refers to b.
C13_ReferencesSetToNone ==
    \A b \in TargetBodies : JustRemoved(b) =>
        /\ NotTargeted(b)
        /\ removed.nav = b => navTarget = None
        /\ removed.combat = b => combatTarget = None
        /\ removed.setSpeed = b => setSpeedTarget = None

\* C13: after NotifyRemoved(b) no target refers to b: the combat and the
\* set-speed target that referred to b are none, and so is the navigation
\* target that referred to b, unless b was the combat target too and is a
\* ship, when the navigation target is the hyperspace cloud of b.
C13_RemovedBodyNotTargeted ==
    \A b \in TargetBodies : JustRemoved(b) =>
        /\ NotTargeted(b)
        /\ removed.nav = b =>
                navTarget = IF removed.combat = b /\ IsShip(b)
                            THEN GetHyperspaceCloud(b)
                            ELSE None
        /\ removed.combat = b => combatTarget = None
        /\ removed.setSpeed = b => setSpeedTarget = None

\* A ship that was all three targets has been removed and the navigation
\* target is the cloud it left.
C13_Witness ==
    \E b \in TargetBodies :
        /\ JustRemoved(b)
        /\ removed.nav = b /\ removed.combat = b /\ removed.setSpeed = b
        /\ GetHyperspaceCloud(b) # None
        /\ navTarget = GetHyperspaceCloud(b)
        /\ combatTarget = None /\ setSpeedTarget = None

\* -------------------------------------------------- frame resolution claims
HasInertialAncestor(f) == \E d \in 0..f[2] : ~frameGraph[d].rot

\* C14: resolving the vehicle's frame walks the parent links until an
\* INERTIAL frame is found: however deep the rotating frames are nested, the
\* resolution gives the nearest INERTIAL frame at or above the vehicle's, and
\* the mass GetManeuverVelocity has used is the mass of that frame's body;
\* when the root is reached without an INERTIAL frame the resolution fails
\* with a structural-inconsistency error, and so has the query.
C14_PlannerFrameIsInertial ==
    frame # NoFrame =>
        LET r == GetNonRotFrame(frame) IN
        IF HasInertialAncestor(frame)
        THEN /\ ~r.error
             /\ ~IsRotFrame(r.frame)
             /\ r.frame = NearestInertial(frame)
             /\ VelocityAsked =>
                    /\ maneuver.fault = "none"
                    /\ maneuver.velocity.kind = "delta" =>
                        maneuver.velocity.mass =
                            GetMass(GetSystemBody(NearestInertial(frame)))
                    /\ maneuver.velocity.kind = "zero" =>
                        \/ ZeroOffset
                        \/ semiMajorAxis = 0
                        \/ GetSystemBody(NearestInertial(frame)) = None
        ELSE /\ r.error
             /\ VelocityAsked => maneuver.fault = "structural inconsistency"

\* The vehicle is in a rotating frame whose parent rotates too, two links
\* below an INERTIAL frame, and GetManeuverVelocity has used the mass of the
\* body of that INERTIAL frame, the other frames having bodies of their own.
C14_Witness ==
    /\ frame \in ChainFrames
    /\ frame[2] >= 2
    /\ frameGraph[frame[2]].rot /\ frameGraph[frame[2]].systemBody
    /\ frameGraph[frame[2] - 1].rot /\ frameGraph[frame[2] - 1].systemBody
    /\ ~frameGraph[frame[2] - 2].rot
    /\ VelocityAsked
    /\ maneuver.velocity.kind = "delta"
    /\ maneuver.velocity.mass = GetMass(GetSystemBody(<<frame[1], frame[2] - 2>>))

\* ------------------------------------------------- maneuver velocity claims
\* GetManeuverVelocity has been asked with a non-zero offset of a vehicle
\* whose frame resolves to a non-rotating one.
VelocityAskedInOrbit ==
    /\ ~ZeroOffset
    /\ frame # NoFrame
    /\ HasInertialAncestor(frame)
    /\ VelocityAsked

\* C20 as stated: with a non-zero offset GetManeuverVelocity has returned the
\* zero vector whenever the non-rotating frame resolved from the vehicle's
\* frame has no system body; when it has one, the result is the planner's
\* velocity minus the orbit's velocity at the time of flight to the planner's
\* position, both computed with the mass of that body.
C20_VelocityFromResolvedBody ==
    VelocityAskedInOrbit =>
        LET systemBody == GetSystemBody(NearestInertial(frame)) IN
        /\ maneuver.fault = "none"
        /\ systemBody = None => maneuver.velocity = ZeroVelocity
        /\ systemBody # None =>
                maneuver.velocity =
                    DeltaVelocity(planner.vel, GetMass(systemBody), planner.position)

\* C20: as above, the result being the difference when the resolved frame has
\* a system body and the semi-major axis of the current orbit is not zero (it
\* is the zero vector when the axis is zero).
C20_VelocityFromResolvedBodyInOrbit ==
    VelocityAskedInOrbit =>
        LET systemBody == GetSystemBody(NearestInertial(frame)) IN
        /\ maneuver.fault = "none"
        /\ systemBody = None => maneuver.velocity = ZeroVelocity
        /\ (systemBody # None /\ semiMajorAxis = 0) =>
                maneuver.velocity = ZeroVelocity
        /\ (systemBody # None /\ semiMajorAxis # 0) =>
                maneuver.velocity =
                    DeltaVelocity(planner.vel, GetMass(systemBody), planner.position)

\* The vehicle is in a rotating frame that has no system body of its own, the
\* frame above is INERTIAL and has one, and the result is the difference
\* computed with that body's mass.
C20_Witness ==
    /\ VelocityAskedInOrbit
    /\ frame[2] >= 1
    /\ IsRotFrame(frame) /\ GetSystemBody(frame) = None
    /\ ~IsRotFrame(GetParent(frame)) /\ GetSystemBody(GetParent(frame)) # None
    /\ maneuver.velocity =
            DeltaVelocity(planner.vel, GetMass(GetSystemBody(GetParent(frame))),
                          planner.position)

\* --------------------------------------------------------- Lua method claims
Called(call) == luaReturn.call = call

\* C15: Body:DistanceTo(other) has raised a Lua error and returned no
\* distance whenever one of the two bodies is not in space; it has returned
\* the length of the relative position, and raised nothing, only when both
\* are in space.
C15_DistanceOnlyInSpace ==
    Called("DistanceTo") =>
        LET b1 == luaReturn.self
            b2 == luaReturn.other IN
        IF IsInSpace(b1) /\ IsInSpace(b2)
        THEN /\ luaReturn.error = ""
             /\ luaReturn.values =
                    <<Number(Length(Position(b1) - Position(b2)))>>
        ELSE /\ luaReturn.error # ""
             /\ luaReturn.values = <<>>

\* DistanceTo has been called on a body in space with a ship that is not, and
\* has raised the error about its second argument.
C15_Witness ==
    /\ Called("DistanceTo")
    /\ IsInSpace(luaReturn.self)
    /\ ~IsInSpace(luaReturn.other)
    /\ luaReturn.error = "arg #2 is not in space"
    /\ luaReturn.values = <<>>

\* The body GetGroundPosition was called on is a dynamic body in a frame.
OnDynamicBodyInFrame ==
    /\ IsDynamicBody(luaReturn.self)
    /\ space.frame[luaReturn.self] # "none"

\* GetGroundPosition was called on a body that is in space.
GroundPositionAsked ==
    /\ Called("GetGroundPosition")
    /\ IsInSpace(luaReturn.self)

\* C16: Body:GetGroundPosition() has returned nil when the body is not a
\* dynamic body or is not in a rotating frame; otherwise it has returned
\* latitude, longitude and altitude, the altitude being nil only when the
\* frame's body is not a terrain body.
C16_GroundPositionOrNil ==
    GroundPositionAsked =>
        LET b == luaReturn.self IN
        IF ~IsDynamicBody(b) \/ ~FrameIsRot(space.frame[b])
        THEN luaReturn.values = <<Nil>>
        ELSE /\ Len(luaReturn.values) = 3
             /\ luaReturn.values[1] = Latitude(GetPosition(b))
             /\ luaReturn.values[2] = Longitude(GetPosition(b))
             /\ luaReturn.values[3] = Nil <=>
                    ~IsTerrainBody(FrameBody(space.frame[b]))

\* What holds of C16: nil for a body that is not dynamic, and the three
\* values for a dynamic body in a rotating frame.
C16_GroundPositionInRotFrame ==
    Called("GetGroundPosition") =>
        LET b == luaReturn.self IN
        /\ ~IsDynamicBody(b) => luaReturn.values = <<Nil>>
        /\ (OnDynamicBodyInFrame /\ FrameIsRot(space.frame[b])) =>
                /\ Len(luaReturn.values) = 3
                /\ luaReturn.values[1] = Latitude(GetPosition(b))
                /\ luaReturn.values[2] = Longitude(GetPosition(b))
                /\ luaReturn.values[3] = Nil <=>
                        ~IsTerrainBody(FrameBody(space.frame[b]))

\* The altitude of body b above other, from the position of b.
AltitudeRelTo(b, other) ==
    LET center_dist == Length(Position(b) - Position(other))
        radius == IF center_dist <= 3 * GetMaxFeatureRadius(other)
                  THEN GetTerrainHeight(other)
                  ELSE 0 IN
    IF ~IsTerrainBody(other) THEN center_dist
    ELSE IF center_dist - radius < 0 THEN 0
    ELSE center_dist - radius

\* C17: body:GetAltitudeRelTo(other) has returned the altitude of the body it
\* was called on relative to other, computed from that body's own position.
C17_AltitudeOfInvokingBody ==
    Called("GetAltitudeRelTo") =>
        luaReturn.values =
            <<Number(AltitudeRelTo(luaReturn.self, luaReturn.other))>>

\* What holds of C17: the altitude returned is the player's.
C17_AltitudeOfPlayer ==
    Called("GetAltitudeRelTo") =>
        luaReturn.values = <<Number(AltitudeRelTo("player", luaReturn.other))>>

\* ------------------------------------------------------------ liveness claim
\* C19: under fair ticking every jump that has left IDLE returns to IDLE, by
\* an abort in WARMUP or by arriving after the commit: the machine stays in
\* none of WARMUP, COMMITTED, TRANSIT and ARRIVING forever.
C19_JumpReturnsToIdle == []<>(currentState = "IDLE")

\* A jump that was committed has arrived: its session is gone and the machine
\* is IDLE again.
C19_Witness ==
    /\ lastCall = "Advance"
    /\ lastStatus = "OnEnterSystem"
    /\ path[Len(path)] = "IDLE"
    /\ InSeq("ARRIVING", path)
    /\ currentState = "IDLE"
    /\ sessions = 0
    /\ ~wantHyperspace

\* ------------------------------------------------- removal, case by case
\* The navigation target NotifyRemoved(b) is left with by its clearing step.
NavAfterClearing(b) == IF removed.nav = b THEN None ELSE removed.nav

\* C22: after NotifyRemoved(b), when b was the combat target and is a ship and
\* the clearing step left no navigation target, the navigation target is the
\* hyperspace cloud of b; in every other case each of the navigation, combat
\* and set-speed targets that did not refer to b is what it was.
C22_CloudOrUnchanged ==
    \A b \in TargetBodies : JustRemoved(b) =>
        IF removed.combat = b /\ IsShip(b) /\ NavAfterClearing(b) = None
        THEN navTarget = GetHyperspaceCloud(b)
        ELSE /\ removed.nav # b => navTarget = removed.nav
             /\ removed.combat # b => combatTarget = removed.combat
             /\ removed.setSpeed # b => setSpeedTarget = removed.setSpeed

\* C22's case: a ship that was the combat target and not the navigation
\* target has been removed; there was no navigation target and there is now
\* the ship's cloud, and the set-speed target is the other body it was.
C22_Witness ==
    \E b \in TargetBodies :
        /\ JustRemoved(b)
        /\ removed.combat = b
        /\ removed.nav = None
        /\ GetHyperspaceCloud(b) # None
        /\ navTarget = GetHyperspaceCloud(b)
        /\ removed.setSpeed \notin {b, None}
        /\ setSpeedTarget = removed.setSpeed

\* ------------------------------------------------- detached, no targets
Detached == currentState \in {"COMMITTED", "TRANSIT"}

C24_AbortSoundOnlyOnAbort ==
    [][InSeq(Sound("abort_sound"), played')
            => /\ currentState = "WARMUP"
               /\ currentState' = "IDLE"
               /\ path' = <<"WARMUP", "ABORTED", "IDLE">>]_vars

\* ------------------------------------------------- SystemBody attributes
\* C25: reading the attribute body of a SystemBody has pushed exactly one
\* value on the stack, and the script has got the physics body when the game
\* has a space with a body for the path, and nil in every other situation (no
\* game, a game without a space, no body for the path).
C25_BodyPushesOneValue ==
    Called("body") =>
        /\ Len(luaStack) = 2
        /\ luaReturn.values =
              <<IF game.game /\ game.space /\ luaReturn.self \in game.bodies
                THEN Userdata("Body", luaReturn.self)
                ELSE Nil>>

\* ------------------------------------------------------- the creak sound
\* The change of the jerk from entry i - 1 to entry i of the history is at or
\* above the threshold of 0.5.
AtOrAboveThreshold(i) == ~BelowThreshold(Length(m_jerk[i] - m_jerk[i - 1]), 1)

====
